---------------------------- MODULE Spec2Model ----------------------------
(***************************************************************************)
(* Model of the backtesting engine of kazakovas73/algo-trading:            *)
(*   src/src/backtest.py      class Backtester                             *)
(*   src/src/backtest_min.py  class BacktesterMin                          *)
(*                                                                         *)
(* A backtester is constructed over a price table and run once over a      *)
(* signal series.  run() derives the columns signal, ret, strategy_ret,    *)
(* trade_change, costs, net_ret and equity with pandas, replays the rows   *)
(* to extract trades, and calls _calc_stats.                               *)
(*                                                                         *)
(* Floating point numbers are modelled as exact rationals [n, d] in lowest *)
(* terms, d > 0; the float NaN is the value with d = 0.  A quantity that   *)
(* involves numpy.sqrt is kept as sgn * sqrt(sq) with sq rational.  Rows   *)
(* are indexed from 0 as in the reset RangeIndex of the price table, and   *)
(* the date of row t is modelled by t itself (dates are distinct and       *)
(* increasing).                                                            *)
(***************************************************************************)
EXTENDS Integers, Sequences, FiniteSets, TLC

\* bt     the constructed object: its class and the attributes set by __init__
\* call   the arguments of run: signals and initial_capital
\* pc     "run" before the call, "iterrows" inside the trade loop,
\*        "done" once a BacktestResult is returned, "raised" on an exception
\* df, i, position, entry_price, entry_date, trades   the locals of run
\* result the BacktestResult returned, or the exception raised
VARIABLES bt, call, pc, df, i, position, entry_price, entry_date, trades,
          result

vars == <<bt, call, pc, df, i, position, entry_price, entry_date, trades,
          result>>

---------------------------------------------------------------------------
(* Bounds of the model *)

\* longest generated price table (the round-trip scenario has 4 rows)
MaxBars == 3

---------------------------------------------------------------------------
(* float arithmetic, as exact rationals with NaN *)

Abs(x) == IF x < 0 THEN -x ELSE x

RECURSIVE Gcd(_, _)
Gcd(a, b) == IF b = 0 THEN a ELSE Gcd(b, a % b)

NaN == [n |-> 0, d |-> 0]

IsNaN(x) == x.d = 0

\* the float n/d, d # 0
Rat(n, d) ==
    LET g == Gcd(Abs(n), Abs(d))
        s == IF d < 0 THEN -1 ELSE 1
    IN  [n |-> s * (n \div g), d |-> s * (d \div g)]

Float(k) == [n |-> k, d |-> 1]

Add(x, y) ==
    IF IsNaN(x) \/ IsNaN(y) THEN NaN
    ELSE LET g == Gcd(x.d, y.d)
         IN  Rat(x.n * (y.d \div g) + y.n * (x.d \div g), (x.d \div g) * y.d)

Neg(x) == IF IsNaN(x) THEN NaN ELSE [n |-> -x.n, d |-> x.d]

Sub(x, y) == Add(x, Neg(y))

Mul(x, y) ==
    IF IsNaN(x) \/ IsNaN(y) THEN NaN
    ELSE LET g1 == Gcd(Abs(x.n), y.d)
             g2 == Gcd(Abs(y.n), x.d)
         IN  [n |-> (x.n \div g1) * (y.n \div g2),
              d |-> (x.d \div g2) * (y.d \div g1)]

\* x / y; with strictly positive prices no divisor of the engine is zero
\* (the two divisions of _calc_stats by a deviation are guarded in the code)
Div(x, y) ==
    IF IsNaN(x) \/ IsNaN(y) \/ y.n = 0 THEN NaN
    ELSE Mul(x, IF y.n < 0 THEN [n |-> -y.d, d |-> -y.n]
                ELSE [n |-> y.d, d |-> y.n])

\* comparisons of floats: every ordered comparison with NaN is False,
\* and NaN != x is True for every x
Lt(x, y) ==
    /\ ~IsNaN(x)
    /\ ~IsNaN(y)
    /\ LET g == Gcd(x.d, y.d)
       IN  x.n * (y.d \div g) < y.n * (x.d \div g)

Gt(x, y) == Lt(y, x)

Ne(x, y) == IsNaN(x) \/ IsNaN(y) \/ x # y

Eq(x, y) == ~Ne(x, y)

FAbs(x) == IF IsNaN(x) THEN NaN ELSE [n |-> Abs(x.n), d |-> x.d]

---------------------------------------------------------------------------
(* values sgn * sqrt(sq): what numpy.sqrt and Series.std produce *)

RealNaN == [sgn |-> 0, sq |-> NaN]

RealZero == [sgn |-> 0, sq |-> Float(0)]

RealIsNaN(r) == IsNaN(r.sq)

Sign(x) == IF x.n > 0 THEN 1 ELSE IF x.n < 0 THEN -1 ELSE 0

\* a float seen as sgn * sqrt(sq)
Real(x) == IF IsNaN(x) THEN RealNaN ELSE [sgn |-> Sign(x), sq |-> Mul(x, x)]

\* np.sqrt of a non-negative float
Sqrt(x) == IF IsNaN(x) \/ x.n < 0 THEN RealNaN ELSE [sgn |-> Sign(x), sq |-> x]

RealMul(a, b) ==
    IF RealIsNaN(a) \/ RealIsNaN(b) THEN RealNaN
    ELSE [sgn |-> a.sgn * b.sgn, sq |-> Mul(a.sq, b.sq)]

RealDiv(a, b) ==
    IF RealIsNaN(a) \/ RealIsNaN(b) \/ b.sgn = 0 THEN RealNaN
    ELSE [sgn |-> a.sgn * b.sgn, sq |-> Div(a.sq, b.sq)]

\* r > 0 (False for NaN)
RealGt0(r) == ~RealIsNaN(r) /\ r.sgn = 1

---------------------------------------------------------------------------
(* pandas.Series operations used by run and _calc_stats; a Series over the *)
(* RangeIndex 0..N-1 is a function with that domain                        *)

Size(s) == Cardinality(DOMAIN s)

\* None: the value of entry_price and entry_date while no trade is open, and
\* the null cell of a date or price column
None == -1

\* the Series f with its values computed once (f itself: f @@ <<>> = f)
Eager(f) == f @@ <<>>

\* faulty variant: Series.shift(-1): each bar is given the value of the next one
shift_back(s) ==
    Eager([t \in DOMAIN s |-> IF t + 1 \in DOMAIN s THEN s[t + 1] ELSE NaN])

\* Series.shift(1)
shift(s) == Eager([t \in DOMAIN s |-> IF t = 0 THEN NaN ELSE s[t - 1]])

\* Series.fillna(v)
fillna(s, v) == Eager([t \in DOMAIN s |-> IF IsNaN(s[t]) THEN v ELSE s[t]])

\* df[col] = s, first step: a frame that has no rows takes the index of a
\* non-empty Series assigned to it, otherwise it keeps its own
ensure_valid_index(index, s) ==
    IF index = {} /\ DOMAIN s # {} THEN DOMAIN s ELSE index

\* a column of the frame on a new index: labels the column lacks hold null
reindex(s, index) == [t \in index |-> IF t \in DOMAIN s THEN s[t] ELSE None]

\* df[col] = s, second step: the assigned Series is aligned on the index of
\* the frame; labels that s lacks get NaN, labels only s has are dropped
setitem(index, s) == Eager([t \in index |-> IF t \in DOMAIN s THEN s[t] ELSE NaN])

\* faulty variant: the change of price over the new price, not over the old one
pct_change_of_new(s) ==
    Eager([t \in DOMAIN s |->
              IF t = 0 THEN NaN ELSE Sub(Float(1), Div(s[t - 1], s[t]))])

\* Series.pct_change()
pct_change(s) ==
    Eager([t \in DOMAIN s |->
              IF t = 0 THEN NaN ELSE Sub(Div(s[t], s[t - 1]), Float(1))])

\* Series.diff()
diff(s) == Eager([t \in DOMAIN s |-> IF t = 0 THEN NaN ELSE Sub(s[t], s[t - 1])])

\* Series.abs()
abs(s) == Eager([t \in DOMAIN s |-> FAbs(s[t])])

\* running product of the non-NaN values of s[0..t] (skipna)
RECURSIVE ProdTo(_, _)
ProdTo(s, t) ==
    IF t < 0 THEN Float(1)
    ELSE IF IsNaN(s[t]) THEN ProdTo(s, t - 1)
    ELSE Mul(ProdTo(s, t - 1), s[t])

\* Series.cumprod(): NaN stays NaN, the product runs over the other values
cumprod(s) == Eager([t \in DOMAIN s |-> IF IsNaN(s[t]) THEN NaN ELSE ProdTo(s, t)])

\* running maximum of the non-NaN values of s[0..t]; NaN when there is none
RECURSIVE MaxTo(_, _)
MaxTo(s, t) ==
    IF t < 0 THEN NaN
    ELSE LET m == MaxTo(s, t - 1)
         IN  IF IsNaN(s[t]) THEN m
             ELSE IF IsNaN(m) \/ Gt(s[t], m) THEN s[t] ELSE m

\* Series.cummax()
cummax(s) == Eager([t \in DOMAIN s |-> IF IsNaN(s[t]) THEN NaN ELSE MaxTo(s, t)])

RECURSIVE MinTo(_, _)
MinTo(s, t) ==
    IF t < 0 THEN NaN
    ELSE LET m == MinTo(s, t - 1)
         IN  IF IsNaN(s[t]) THEN m
             ELSE IF IsNaN(m) \/ Lt(s[t], m) THEN s[t] ELSE m

\* Series.min(): the least non-NaN value, NaN when there is none
min(s) == MinTo(s, Size(s) - 1)

RECURSIVE SumTo(_, _)
SumTo(s, t) ==
    IF t < 0 THEN Float(0)
    ELSE IF IsNaN(s[t]) THEN SumTo(s, t - 1)
    ELSE Add(SumTo(s, t - 1), s[t])

\* Series.count(): the number of non-NaN values
count(s) == Cardinality({t \in DOMAIN s : ~IsNaN(s[t])})

\* Series.mean(): mean of the non-NaN values, NaN when there is none
mean(s) ==
    IF count(s) = 0 THEN NaN
    ELSE Div(SumTo(s, Size(s) - 1), Float(count(s)))

\* sample variance (ddof = 1) of the non-NaN values; NaN below two values
var(s) ==
    IF count(s) < 2 THEN NaN
    ELSE LET avg == mean(s)
             sqr == Eager([t \in DOMAIN s |->
                        IF IsNaN(s[t]) THEN NaN
                        ELSE LET dev == Sub(avg, s[t]) IN Mul(dev, dev)])
         IN  Div(SumTo(sqr, Size(s) - 1), Float(count(s) - 1))

\* Series.std()
std(s) == Sqrt(var(s))

\* s[s < 0]: the negative values of s[0..t], in order
RECURSIVE SelectNegative(_, _)
SelectNegative(s, t) ==
    IF t < 0 THEN <<>>
    ELSE IF Lt(s[t], Float(0)) THEN Append(SelectNegative(s, t - 1), s[t])
    ELSE SelectNegative(s, t - 1)

\* a list as a Series over a fresh RangeIndex
Series(seq) == [t \in 0 .. Len(seq) - 1 |-> seq[t + 1]]

\* an integer Series (the signals) read as float64
astype_float(s) == Eager([t \in DOMAIN s |-> Float(s[t])])

\* a price cell as a float: the null cell is NaN
cell_float(x) == IF x = None THEN NaN ELSE Float(x)

\* a price column as a float64 Series
column_float(s) == Eager([t \in DOMAIN s |-> cell_float(s[t])])

\* element-wise arithmetic of two Series over the same index
SeriesMul(a, b) == Eager([t \in DOMAIN a |-> Mul(a[t], b[t])])

SeriesSub(a, b) == Eager([t \in DOMAIN a |-> Sub(a[t], b[t])])

SeriesDiv(a, b) == Eager([t \in DOMAIN a |-> Div(a[t], b[t])])

\* arithmetic of a Series and a scalar
Scale(a, k) == Eager([t \in DOMAIN a |-> Mul(a[t], k)])

Plus(a, k) == Eager([t \in DOMAIN a |-> Add(a[t], k)])

\* Series.iloc[-1] of a non-empty Series
Last(s) == s[Size(s) - 1]

\* x ** e - 1, kept symbolically: the base and the exponent
PowMinus1(x, e) == [base |-> x, exp |-> e]

---------------------------------------------------------------------------
(* class Backtester, src/src/backtest.py *)

\* faulty variant: the signal taken as the position of its own bar
Backtester_signal_unshifted(self, signals) ==
    LET value == fillna(astype_float(signals), Float(0))
    IN  setitem(ensure_valid_index(DOMAIN self.data.close, value), value)

\* run, line 29: df["signal"] = signals.shift(1).fillna(0), aligned on the
\* index of the price table (of the Series, when the table has no rows)
Backtester_signal(self, signals) ==
    LET value == fillna(shift(astype_float(signals)), Float(0))
    IN  setitem(ensure_valid_index(DOMAIN self.data.close, value), value)

\* faulty variant: the slippage left out of the cost of a position change
Backtester_costs_commission_only(self, trade_change) ==
    Scale(trade_change, self.commission)

\* run, line 39: df["costs"]
Backtester_costs(self, trade_change) ==
    Scale(trade_change, Add(self.commission, self.slippage))

\* faulty variant: the pnl of a long trade, whatever the direction
Backtester_pnl_long(exit_price, entry, direction) ==
    Sub(Div(cell_float(exit_price), cell_float(entry)), Float(1))

\* run, line 60: the pnl of a trade closed at exit_price
Backtester_pnl(exit_price, entry, direction) ==
    Mul(Sub(Div(cell_float(exit_price), cell_float(entry)), Float(1)), direction)

\* run, lines 28-43: the columns added to the copy of self.data
Backtester_df(self, signals, initial_capital) ==
    LET signal == Backtester_signal(self, signals)
        date_col == reindex(self.data.date, DOMAIN signal)
        close_col == reindex(self.data.close, DOMAIN signal)
        close == column_float(close_col)
        ret == fillna(pct_change(close), Float(0))
        strategy_ret == SeriesMul(signal, ret)
        trade_change == fillna(abs(diff(signal)), Float(0))
        costs == Backtester_costs(self, trade_change)
        net_ret == SeriesSub(strategy_ret, costs)
        equity == Scale(cumprod(Plus(net_ret, Float(1))), Float(initial_capital))
    IN  [date |-> date_col, close |-> close_col, signal |-> signal,
         ret |-> ret, strategy_ret |-> strategy_ret,
         trade_change |-> trade_change, costs |-> costs, net_ret |-> net_ret,
         equity |-> equity]

\* faulty variant: the loop body that goes flat on every close, a flip included
Backtester_row_flat_on_close(st, row) ==
    IF Eq(st.position, Float(0)) /\ Ne(row.signal, Float(0))
    THEN [st EXCEPT !.position = row.signal,
                    !.entry_price = row.close,
                    !.entry_date = row.date]
    ELSE IF Ne(st.position, Float(0)) /\ Ne(row.signal, st.position)
    THEN [position |-> Float(0),
          entry_price |-> row.close,
          entry_date |-> None,
          trades |-> Append(st.trades,
                            [entry_date |-> st.entry_date,
                             exit_date |-> row.date,
                             entry_price |-> st.entry_price,
                             exit_price |-> row.close,
                             pnl |-> Backtester_pnl(row.close, st.entry_price,
                                                    st.position)])]
    ELSE st

\* run, lines 52-70: one pass of the loop body over a row, on the loop's
\* variables st = [position, entry_price, entry_date, trades]
Backtester_row(st, row) ==
    IF Eq(st.position, Float(0)) /\ Ne(row.signal, Float(0))
    THEN [st EXCEPT !.position = row.signal,
                    !.entry_price = row.close,
                    !.entry_date = row.date]
    ELSE IF Ne(st.position, Float(0)) /\ Ne(row.signal, st.position)
    THEN LET exit_price == row.close
             pnl == Backtester_pnl(exit_price, st.entry_price, st.position)
         IN  [position |-> row.signal,
              entry_price |-> row.close,
              entry_date |-> IF Ne(row.signal, Float(0)) THEN row.date ELSE None,
              trades |-> Append(st.trades,
                                [entry_date |-> st.entry_date,
                                 exit_date |-> row.date,
                                 entry_price |-> st.entry_price,
                                 exit_price |-> exit_price,
                                 pnl |-> pnl])]
    ELSE st

\* df.iterrows(): row t of the frame
Row(frame, t) == [date |-> frame.date[t], close |-> frame.close[t],
                  signal |-> frame.signal[t]]

\* run, lines 46-49: the loop's variables before the first row
LoopStart == [position |-> Float(0), entry_price |-> None, entry_date |-> None,
              trades |-> <<>>]

\* run, lines 46-70: the loop's variables after rows 0..k-1
RECURSIVE Backtester_iterrows(_, _)
Backtester_iterrows(frame, k) ==
    IF k = 0 THEN LoopStart
    ELSE Backtester_row(Backtester_iterrows(frame, k - 1), Row(frame, k - 1))

\* faulty variant: calendar days for trading days
CalendarDays == 252 + 113

\* _calc_stats, lines 81-84: the bars per year of Backtester, the literal 252
TradingDays == 252

\* _calc_stats, lines 79-97, on a non-empty returns Series
\* (equity.iloc[-1] raises IndexError on an empty one); returns.mean() and
\* returns.std() are pure, and each is written once here
Backtester_calc_stats(returns, trade_list, initial_capital) ==
    LET equity == cumprod(Plus(returns, Float(1)))
        cagr == PowMinus1(Last(equity), Rat(TradingDays, Size(equity)))
        returns_std == std(returns)
        returns_mean == mean(returns)
        vol == RealMul(returns_std, Sqrt(Float(TradingDays)))
        sharpe == IF RealGt0(vol)
                  THEN RealMul(RealDiv(Real(returns_mean), returns_std),
                               Sqrt(Float(TradingDays)))
                  ELSE RealZero
        negative == Series(SelectNegative(returns, Size(returns) - 1))
        downside == RealMul(std(negative), Sqrt(Float(TradingDays)))
        sortino == IF RealGt0(downside)
                   THEN RealDiv(Real(returns_mean), downside)
                   ELSE RealZero
        max_dd == min(Plus(SeriesDiv(equity, cummax(equity)), Float(-1)))
        wins == {k \in 1 .. Len(trade_list) : Gt(trade_list[k].pnl, Float(0))}
        winrate == IF trade_list # <<>>
                   THEN Rat(Cardinality(wins), Len(trade_list))
                   ELSE Float(0)
    IN  ("CAGR" :> cagr) @@ ("Volatility" :> vol) @@ ("Sharpe" :> sharpe)
        @@ ("Sortino" :> sortino) @@ ("MaxDD" :> max_dd)
        @@ ("Winrate" :> winrate)
        @@ ("Final Equity" :> Mul(Last(equity), Float(initial_capital)))

\* run as a whole, lines 23-77: the BacktestResult it returns, or the
\* IndexError that _calc_stats raises when the frame has no rows
Backtester_run_result(self, signals, initial_capital) ==
    LET frame == Backtester_df(self, signals, initial_capital)
        st == Backtester_iterrows(frame, Size(frame.close))
    IN  IF Size(frame.close) = 0 THEN "IndexError"
        ELSE [equity_curve |-> frame.equity, trades |-> st.trades,
              stats |-> Backtester_calc_stats(frame.net_ret, st.trades,
                                              initial_capital)]

---------------------------------------------------------------------------
(* class BacktesterMin, src/src/backtest_min.py *)

\* run, line 32: df["signal"] = signals.shift(1).fillna(0), aligned on the
\* index of the price table (of the Series, when the table has no rows)
BacktesterMin_signal(self, signals) ==
    LET value == fillna(shift(astype_float(signals)), Float(0))
    IN  setitem(ensure_valid_index(DOMAIN self.data.close, value), value)

\* run, line 42: df["costs"]
BacktesterMin_costs(self, trade_change) ==
    Scale(trade_change, Add(self.commission, self.slippage))

\* run, line 62: the pnl of a trade closed at exit_price
BacktesterMin_pnl(exit_price, entry, direction) ==
    Mul(Sub(Div(cell_float(exit_price), cell_float(entry)), Float(1)), direction)

\* run, lines 31-46: the columns added to the copy of self.data
BacktesterMin_df(self, signals, initial_capital) ==
    LET signal == BacktesterMin_signal(self, signals)
        date_col == reindex(self.data.date, DOMAIN signal)
        close_col == reindex(self.data.close, DOMAIN signal)
        close == column_float(close_col)
        ret == fillna(pct_change(close), Float(0))
        strategy_ret == SeriesMul(signal, ret)
        trade_change == fillna(abs(diff(signal)), Float(0))
        costs == BacktesterMin_costs(self, trade_change)
        net_ret == SeriesSub(strategy_ret, costs)
        equity == Scale(cumprod(Plus(net_ret, Float(1))), Float(initial_capital))
    IN  [date |-> date_col, close |-> close_col, signal |-> signal,
         ret |-> ret, strategy_ret |-> strategy_ret,
         trade_change |-> trade_change, costs |-> costs, net_ret |-> net_ret,
         equity |-> equity]

\* run, lines 54-72: one pass of the loop body over a row
BacktesterMin_row(st, row) ==
    IF Eq(st.position, Float(0)) /\ Ne(row.signal, Float(0))
    THEN [st EXCEPT !.position = row.signal,
                    !.entry_price = row.close,
                    !.entry_date = row.date]
    ELSE IF Ne(st.position, Float(0)) /\ Ne(row.signal, st.position)
    THEN LET exit_price == row.close
             pnl == BacktesterMin_pnl(exit_price, st.entry_price, st.position)
         IN  [position |-> row.signal,
              entry_price |-> row.close,
              entry_date |-> IF Ne(row.signal, Float(0)) THEN row.date ELSE None,
              trades |-> Append(st.trades,
                                [entry_date |-> st.entry_date,
                                 exit_date |-> row.date,
                                 entry_price |-> st.entry_price,
                                 exit_price |-> exit_price,
                                 pnl |-> pnl])]
    ELSE st

\* run, lines 49-72: the loop's variables after rows 0..k-1
RECURSIVE BacktesterMin_iterrows(_, _)
BacktesterMin_iterrows(frame, k) ==
    IF k = 0 THEN LoopStart
    ELSE BacktesterMin_row(BacktesterMin_iterrows(frame, k - 1),
                           Row(frame, k - 1))

\* _calc_stats, lines 81-100, on a non-empty returns Series
BacktesterMin_calc_stats(self, returns, trade_list, initial_capital) ==
    LET equity == cumprod(Plus(returns, Float(1)))
        cagr == PowMinus1(Last(equity), Rat(self.bars_per_year, Size(equity)))
        returns_std == std(returns)
        returns_mean == mean(returns)
        vol == RealMul(returns_std, Sqrt(Float(self.bars_per_year)))
        sharpe == IF RealGt0(vol)
                  THEN RealMul(RealDiv(Real(returns_mean), returns_std),
                               Sqrt(Float(self.bars_per_year)))
                  ELSE RealZero
        negative == Series(SelectNegative(returns, Size(returns) - 1))
        downside == RealMul(std(negative), Sqrt(Float(self.bars_per_year)))
        sortino == IF RealGt0(downside)
                   THEN RealDiv(Real(returns_mean), downside)
                   ELSE RealZero
        max_dd == min(Plus(SeriesDiv(equity, cummax(equity)), Float(-1)))
        wins == {k \in 1 .. Len(trade_list) : Gt(trade_list[k].pnl, Float(0))}
        winrate == IF trade_list # <<>>
                   THEN Rat(Cardinality(wins), Len(trade_list))
                   ELSE Float(0)
    IN  ("CAGR" :> cagr) @@ ("Volatility" :> vol) @@ ("Sharpe" :> sharpe)
        @@ ("Sortino" :> sortino) @@ ("MaxDD" :> max_dd)
        @@ ("Winrate" :> winrate)
        @@ ("Final Equity" :> Mul(Last(equity), Float(initial_capital)))

\* run as a whole, lines 26-79
BacktesterMin_run_result(self, signals, initial_capital) ==
    LET frame == BacktesterMin_df(self, signals, initial_capital)
        st == BacktesterMin_iterrows(frame, Size(frame.close))
    IN  IF Size(frame.close) = 0 THEN "IndexError"
        ELSE [equity_curve |-> frame.equity, trades |-> st.trades,
              stats |-> BacktesterMin_calc_stats(self, frame.net_ret, st.trades,
                                                 initial_capital)]

---------------------------------------------------------------------------
(* The inputs explored *)

\* close prices of the generated price tables
Prices == {100, 110}

\* the price table of the round-trip scenario: closes 100, 110, 121, 121
RoundTripCloses == Series(<<100, 110, 121, 121>>)

SignalValues == {-1, 0, 1}

\* (commission, slippage) pairs given to the constructor
CostRates == {<<Float(0), Float(0)>>, <<Rat(1, 10), Rat(1, 5)>>}

InitialCapitals == {1000}

\* bars_per_year given to BacktesterMin: daily and weekly bars
BarsPerYear == {252, 52}

\* price tables of 1..MaxBars rows, dated 0, 1, 2, ...
CloseSeries ==
    UNION {[0 .. n - 1 -> Prices] : n \in 1 .. MaxBars} \cup {RoundTripCloses}

DataFrame(closes) == [date |-> [t \in DOMAIN closes |-> t], close |-> closes]

\* Backtester.__init__, lines 19-21
Backtester_init(frame, c, s) ==
    [class |-> "Backtester", data |-> frame, commission |-> c, slippage |-> s]

\* BacktesterMin.__init__, lines 21-24
BacktesterMin_init(frame, c, s, bpy) ==
    [class |-> "BacktesterMin", data |-> frame, commission |-> c,
     slippage |-> s, bars_per_year |-> bpy]

Objects(closes) ==
    {Backtester_init(DataFrame(closes), r[1], r[2]) : r \in CostRates}
    \cup {BacktesterMin_init(DataFrame(closes), r[1], r[2], b) :
            r \in CostRates, b \in BarsPerYear}

\* the locals of run before the call
NotStarted ==
    /\ pc = "run"
    /\ df = <<>>
    /\ i = 0
    /\ position = Float(0)
    /\ entry_price = None
    /\ entry_date = None
    /\ trades = <<>>
    /\ result = None

\* a constructed backtester and a signal Series of the length of its price
\* table, values in {-1, 0, 1}
Init ==
    /\ \E closes \in CloseSeries :
          /\ bt \in Objects(closes)
          /\ call \in [signals : [DOMAIN closes -> SignalValues],
                       initial_capital : InitialCapitals]
    /\ NotStarted

\* a constructed backtester over a price table of 0..MaxBars rows and a
\* signal Series of any length up to MaxBars, over its own RangeIndex
InitAnyShape ==
    /\ \E closes \in CloseSeries \cup {<<>>} :
          /\ bt \in Objects(closes)
          /\ call \in [signals : UNION {[0 .. m - 1 -> SignalValues] :
                                          m \in 0 .. MaxBars},
                       initial_capital : InitialCapitals]
    /\ NotStarted

---------------------------------------------------------------------------
(* The steps of run *)

LoopVars == [position |-> position, entry_price |-> entry_price,
             entry_date |-> entry_date, trades |-> trades]

SetLoopVars(st) ==
    /\ position' = st.position
    /\ entry_price' = st.entry_price
    /\ entry_date' = st.entry_date
    /\ trades' = st.trades

\* Backtester.run, lines 28-49: the columns, then the loop's initial values
Backtester_run ==
    /\ pc = "run"
    /\ bt.class = "Backtester"
    /\ df' = Backtester_df(bt, call.signals, call.initial_capital)
    /\ SetLoopVars(LoopStart)
    /\ i' = 0
    /\ pc' = "iterrows"
    /\ UNCHANGED <<bt, call, result>>

\* Backtester.run, lines 51-70: the loop body on row i
Backtester_for_row ==
    /\ pc = "iterrows"
    /\ bt.class = "Backtester"
    /\ i < Size(df.close)
    /\ SetLoopVars(Backtester_row(LoopVars, Row(df, i)))
    /\ i' = i + 1
    /\ UNCHANGED <<bt, call, pc, df, result>>

\* Backtester.run, lines 72-77: after the last row, the statistics and the
\* BacktestResult; _calc_stats raises IndexError when the frame has no rows
Backtester_return ==
    /\ pc = "iterrows"
    /\ bt.class = "Backtester"
    /\ i = Size(df.close)
    /\ IF Size(df.net_ret) = 0
       THEN /\ result' = "IndexError"
            /\ pc' = "raised"
       ELSE /\ result' = [equity_curve |-> df.equity, trades |-> trades,
                          stats |-> Backtester_calc_stats(df.net_ret, trades,
                                                          call.initial_capital)]
            /\ pc' = "done"
    /\ UNCHANGED <<bt, call, df, i, position, entry_price, entry_date, trades>>

\* BacktesterMin.run, lines 31-51
BacktesterMin_run ==
    /\ pc = "run"
    /\ bt.class = "BacktesterMin"
    /\ df' = BacktesterMin_df(bt, call.signals, call.initial_capital)
    /\ SetLoopVars(LoopStart)
    /\ i' = 0
    /\ pc' = "iterrows"
    /\ UNCHANGED <<bt, call, result>>

\* BacktesterMin.run, lines 53-72
BacktesterMin_for_row ==
    /\ pc = "iterrows"
    /\ bt.class = "BacktesterMin"
    /\ i < Size(df.close)
    /\ SetLoopVars(BacktesterMin_row(LoopVars, Row(df, i)))
    /\ i' = i + 1
    /\ UNCHANGED <<bt, call, pc, df, result>>

\* BacktesterMin.run, lines 74-79
BacktesterMin_return ==
    /\ pc = "iterrows"
    /\ bt.class = "BacktesterMin"
    /\ i = Size(df.close)
    /\ IF Size(df.net_ret) = 0
       THEN /\ result' = "IndexError"
            /\ pc' = "raised"
       ELSE /\ result' = [equity_curve |-> df.equity, trades |-> trades,
                          stats |-> BacktesterMin_calc_stats(bt, df.net_ret,
                                       trades, call.initial_capital)]
            /\ pc' = "done"
    /\ UNCHANGED <<bt, call, df, i, position, entry_price, entry_date, trades>>

Next ==
    \/ Backtester_run
    \/ Backtester_for_row
    \/ Backtester_return
    \/ BacktesterMin_run
    \/ BacktesterMin_for_row
    \/ BacktesterMin_return

Spec == Init /\ [][Next]_vars

\* run over inputs of any shape
SpecShape == InitAnyShape /\ [][Next]_vars

---------------------------------------------------------------------------
(* Vocabulary of the properties, in the terms of the specification *)

\* number of bars of the price table
N == Size(bt.data.close)

Bars == 0 .. N - 1

Close(t) == bt.data.close[t]

Signal(t) == call.signals[t]

\* the position held during bar t
LaggedPosition(t) == IF t = 0 THEN 0 ELSE Signal(t - 1)

\* close[t] / close[t-1] - 1, and 0 on the first bar
MarketReturn(t) ==
    IF t = 0 THEN Float(0)
    ELSE Sub(Rat(Close(t), Close(t - 1)), Float(1))

PositionChange(t) ==
    IF t = 0 THEN 0 ELSE Abs(LaggedPosition(t) - LaggedPosition(t - 1))

\* the columns are computed and rows 0..i-1 have been replayed
Started == pc \in {"iterrows", "done"}

\* run of either class, as a function of its inputs
RunResult(self, sig, capital) ==
    IF self.class = "Backtester"
    THEN Backtester_run_result(self, sig, capital)
    ELSE BacktesterMin_run_result(self, sig, capital)

\* the columns and the trade list of run of either class
RunFrame(self, sig, capital) ==
    IF self.class = "Backtester"
    THEN Backtester_df(self, sig, capital)
    ELSE BacktesterMin_df(self, sig, capital)

RunTrades(self, frame) ==
    IF self.class = "Backtester"
    THEN Backtester_iterrows(frame, Size(frame.close)).trades
    ELSE BacktesterMin_iterrows(frame, Size(frame.close)).trades

\* the trades of a list closed at bar t or before
ClosedBy(trade_list, t) ==
    SelectSeq(trade_list, LAMBDA tr : tr.exit_date <= t)

\* the signal series that keeps bars 0..t-1 and holds v from bar t on
Replaced(t, v) == [k \in Bars |-> IF k < t THEN Signal(k) ELSE v]

---------------------------------------------------------------------------
(* C1  No look-ahead *)

\* C1: the position held at bar 0 is flat and the position held at bar
\* t >= 1 is Signal[t-1]; and a run over a signal series that agrees with
\* this one on all bars before t (same prices, costs, capital) gives the
\* same equity values at bars 0..t and the same trades closed by bar t, so
\* that Signal[N-1] influences nothing of the result.  For each t the other
\* series is the one that is flat from bar t on: two series that agree
\* before t both agree before t with that one, and so with each other on
\* what they give up to t.  For the last bar the other series are all those
\* that differ at most there, and the whole result is compared.
NoLookAhead ==
    /\ Started =>
          \A t \in Bars : df.signal[t] = Float(LaggedPosition(t))
    /\ pc = "done" =>
          /\ \A t \in Bars :
                LET frame == RunFrame(bt, Replaced(t, 0), call.initial_capital)
                IN  /\ \A k \in 0 .. t :
                          frame.equity[k] = result.equity_curve[k]
                    /\ ClosedBy(RunTrades(bt, frame), t)
                          = ClosedBy(result.trades, t)
          /\ \A v \in SignalValues :
                RunResult(bt, Replaced(N - 1, v), call.initial_capital) = result

\* a finished run with a closed trade whose last signal is not flat, and a
\* series agreeing with it on bars 0, 1 alone that gives another result
NoLookAheadWitness ==
    /\ pc = "done"
    /\ N >= 3
    /\ Signal(N - 1) # 0
    /\ result.trades # <<>>
    /\ \E v \in SignalValues :
          RunResult(bt, Replaced(2, v), call.initial_capital) # result

---------------------------------------------------------------------------
(* C3  Trade count *)

\* the bars k of 1..t at which the lagged position leaves a nonzero value
Leaves(t) ==
    {k \in 1 .. t : /\ LaggedPosition(k - 1) # 0
                    /\ LaggedPosition(k) # LaggedPosition(k - 1)}

\* C3: after bars 0..t the number of trades emitted is the number of bars k
\* in 1..t with LaggedPosition[k-1] # 0 and LaggedPosition[k] #
\* LaggedPosition[k-1]; the direction of the scan is LaggedPosition[t], so
\* at most one trade is open; and a position still open at the last bar
\* emits no trade: the result holds the closed trades alone.
TradeCount ==
    /\ Started =>
          /\ Len(trades) = Cardinality(Leaves(i - 1))
          /\ i >= 1 => position = Float(LaggedPosition(i - 1))
          /\ i = 0 => position = Float(0)
    /\ pc = "done" =>
          /\ result.trades = trades
          /\ Len(result.trades) = Cardinality(Leaves(N - 1))
          /\ \A k \in 1 .. Len(result.trades) :
                /\ result.trades[k].exit_date \in Leaves(N - 1)
                /\ position # Float(0) =>
                      result.trades[k].entry_date # entry_date

\* a finished run that emitted a trade and ends with a position open
TradeCountWitness ==
    /\ pc = "done"
    /\ Len(result.trades) >= 1
    /\ LaggedPosition(N - 1) # 0
    /\ position # Float(0)

---------------------------------------------------------------------------
(* C4  Flip handling *)

\* the lagged position goes from +1 to -1 or from -1 to +1 at bar t
Flip(t) == t >= 1 /\ LaggedPosition(t - 1) * LaggedPosition(t) = -1

\* the bar at which the direction held at bar t was taken
RECURSIVE TakenAt(_)
TakenAt(t) ==
    IF t = 0 \/ LaggedPosition(t) # LaggedPosition(t - 1) THEN t
    ELSE TakenAt(t - 1)

\* the places in the trade list of the trades closed at bar t
ClosedAt(t) == {k \in 1 .. Len(trades) : trades[k].exit_date = t}

\* C4: when the lagged position flips at bar t, the scan at bar t emits
\* exactly one trade, closing the old direction with exit_date = date[t],
\* exit_price = close[t] and pnl = (close[t] / entry_price - 1) * old
\* direction, and on the same bar opens a trade in the new direction with
\* entry_date = date[t] and entry_price = close[t]; the position change of
\* bar t is 2 and its cost 2 * (commission + slippage).
FlipHandling ==
    Started =>
       \A t \in 1 .. i - 1 :
          Flip(t) =>
             /\ Cardinality(ClosedAt(t)) = 1
             /\ \A k \in ClosedAt(t) :
                   /\ trades[k].exit_price = Close(t)
                   /\ trades[k].entry_date = TakenAt(t - 1)
                   /\ trades[k].entry_price = Close(TakenAt(t - 1))
                   /\ trades[k].pnl =
                         Mul(Sub(Rat(Close(t), trades[k].entry_price), Float(1)),
                             Float(LaggedPosition(t - 1)))
                   /\ k = Len(trades)
                         \/ /\ trades[k + 1].entry_date = t
                            /\ trades[k + 1].entry_price = Close(t)
             /\ t = i - 1 =>
                   /\ position = Float(LaggedPosition(t))
                   /\ entry_date = t
                   /\ entry_price = Close(t)
             /\ df.trade_change[t] = Float(2)
             /\ df.costs[t] = Mul(Float(2), Add(bt.commission, bt.slippage))

\* the scan has just replayed a bar at which a short position flips to long
\* at another price than it was entered at, under nonzero costs
FlipHandlingWitness ==
    /\ pc = "iterrows"
    /\ i >= 2
    /\ Flip(i - 1)
    /\ LaggedPosition(i - 1) = 1
    /\ trades # <<>>
    /\ trades[Len(trades)].pnl # Float(0)
    /\ bt.commission # Float(0)

---------------------------------------------------------------------------
(* C8  Cost model *)

\* (1 + LaggedPosition[0] * MarketReturn[0]) * ... up to bar t
RECURSIVE GrossProduct(_)
GrossProduct(t) ==
    IF t < 0 THEN Float(1)
    ELSE Mul(GrossProduct(t - 1),
             Add(Float(1), Mul(Float(LaggedPosition(t)), MarketReturn(t))))

\* C8: the cost of bar 0 is 0 and the cost of bar t >= 1 is
\* |LaggedPosition[t] - LaggedPosition[t-1]| * (commission + slippage), the
\* position change being 0, 1 or 2; the net return of bar t is
\* LaggedPosition[t] * MarketReturn[t] minus that cost; and with
\* commission = slippage = 0, Final Equity is initial_capital times the
\* product over all bars of 1 + LaggedPosition[t] * MarketReturn[t].
CostModel ==
    /\ Started =>
          \A t \in Bars :
             /\ PositionChange(t) \in {0, 1, 2}
             /\ df.trade_change[t] = Float(PositionChange(t))
             /\ df.costs[t] = Mul(Float(PositionChange(t)),
                                  Add(bt.commission, bt.slippage))
             /\ t = 0 => df.costs[t] = Float(0)
             /\ df.net_ret[t] =
                   Sub(Mul(Float(LaggedPosition(t)), MarketReturn(t)),
                       df.costs[t])
    /\ (pc = "done" /\ bt.commission = Float(0) /\ bt.slippage = Float(0)) =>
          result.stats["Final Equity"] =
             Mul(Float(call.initial_capital), GrossProduct(N - 1))

\* a finished run under nonzero commission and slippage that entered a
\* position from the first signal and reversed it at once
CostModelWitness ==
    /\ pc = "done"
    /\ N >= 3
    /\ bt.commission # Float(0)
    /\ bt.slippage # Float(0)
    /\ PositionChange(1) = 1
    /\ PositionChange(2) = 2

---------------------------------------------------------------------------
(* C9  The two classes are one design *)

\* what does not depend on the annualisation
SameUnscaled(a, b) ==
    /\ a.equity_curve = b.equity_curve
    /\ a.trades = b.trades
    /\ a.stats["MaxDD"] = b.stats["MaxDD"]
    /\ a.stats["Winrate"] = b.stats["Winrate"]
    /\ a.stats["Final Equity"] = b.stats["Final Equity"]

\* the object of the other class over the same data and cost rates
Twin(bpy) ==
    IF bt.class = "Backtester"
    THEN BacktesterMin_init(bt.data, bt.commission, bt.slippage, bpy)
    ELSE Backtester_init(bt.data, bt.commission, bt.slippage)

\* C9: Backtester(data, commission = c, slippage = s).run(...) and
\* BacktesterMin(data, commission = c, slippage = s, bars_per_year =
\* 252).run(...) return the same equity curve, the same trade list and the
\* same statistics; with any other bars_per_year the equity curve, the
\* trade list, MaxDD, Winrate and Final Equity are still the same.
OneDesign ==
    pc = "done" =>
       IF bt.class = "Backtester"
       THEN \A bpy \in BarsPerYear :
               LET twin == RunResult(Twin(bpy), call.signals,
                                     call.initial_capital)
               IN  /\ SameUnscaled(result, twin)
                   /\ bpy = 252 => result = twin
       ELSE LET daily == RunResult(Twin(252), call.signals,
                                   call.initial_capital)
            IN  /\ SameUnscaled(result, daily)
                /\ bt.bars_per_year = 252 => result = daily

\* a finished BacktesterMin run on weekly bars with trades, whose
\* volatility is another than the one Backtester reports
OneDesignWitness ==
    /\ pc = "done"
    /\ bt.class = "BacktesterMin"
    /\ bt.bars_per_year # 252
    /\ result.trades # <<>>
    /\ result.stats["Volatility"] #
          RunResult(Twin(252), call.signals,
                    call.initial_capital).stats["Volatility"]

---------------------------------------------------------------------------
(* C2  Single round trip *)

\* the run is over the round-trip price table with these four signals
RoundTrip(s0, s1, s2, s3) ==
    /\ bt.data.close = RoundTripCloses
    /\ call.signals = Series(<<s0, s1, s2, s3>>)

\* the one trade of the scenario: in at bar 1 at 110, out at bar 3 at 121
OneRoundTripTrade ==
    /\ Len(result.trades) = 1
    /\ result.trades[1].entry_date = 1
    /\ result.trades[1].entry_price = 110
    /\ result.trades[1].exit_date = 3
    /\ result.trades[1].exit_price = 121
    /\ result.trades[1].pnl = Rat(1, 10)

\* C2 as stated: for signal = [0,1,1,0] over closes [100,110,121,121], run
\* emits exactly one trade, opened at bar 1 (entry_price = 110) and closed
\* at bar 3 (exit_price = 121) with pnl = 121/110 - 1 = 0.1.
RoundTripAsStated ==
    (pc = "done" /\ RoundTrip(0, 1, 1, 0)) => OneRoundTripTrade

\* C2 as amended: that one trade is what the signal [1,1,0,v] gives, for
\* any last value v: its lagged position is [0,1,1,0].  The signal
\* [0,1,1,0] has the lagged position [0,0,1,1]: the scan opens at bar 2 at
\* 121, the position is still open at the last bar and no trade is emitted.
RoundTripAmended ==
    /\ (pc = "done" /\ \E v \in SignalValues : RoundTrip(1, 1, 0, v)) =>
          OneRoundTripTrade
    /\ (pc = "done" /\ RoundTrip(0, 1, 1, 0)) =>
          /\ result.trades = <<>>
          /\ position = Float(1)
          /\ entry_date = 2
          /\ entry_price = 121

\* the finished run over the signal [1,1,0,0]
RoundTripWitness ==
    /\ pc = "done"
    /\ RoundTrip(1, 1, 0, 0)
    /\ Len(result.trades) = 1

---------------------------------------------------------------------------
(* C10  Trade PnL against the equity curve *)

\* zero costs, a long-only signal, and a flat position at the last bar
LongOnlyClosed ==
    /\ bt.commission = Float(0)
    /\ bt.slippage = Float(0)
    /\ \A t \in Bars : Signal(t) \in {0, 1}
    /\ LaggedPosition(N - 1) = 0

\* (1 + pnl) multiplied over the first k trades
RECURSIVE PnlProduct(_, _)
PnlProduct(trade_list, k) ==
    IF k = 0 THEN Float(1)
    ELSE Mul(PnlProduct(trade_list, k - 1), Add(Float(1), trade_list[k].pnl))

\* close[exit - 1] / close[entry - 1] multiplied over the first k trades
RECURSIVE BracketProduct(_, _)
BracketProduct(trade_list, k) ==
    IF k = 0 THEN Float(1)
    ELSE Mul(BracketProduct(trade_list, k - 1),
             Rat(Close(trade_list[k].exit_date - 1),
                 Close(trade_list[k].entry_date - 1)))

EquityMultiplier ==
    Div(result.stats["Final Equity"], Float(call.initial_capital))

\* C10 as stated: with zero costs, a long-only signal and a flat lagged
\* position at the last bar, Final Equity / initial_capital is the product
\* of (1 + pnl) over the emitted trades.
PnlMatchesEquityAsStated ==
    (pc = "done" /\ LongOnlyClosed) =>
       EquityMultiplier = PnlProduct(result.trades, Len(result.trades))

\* C10 as amended: under the same conditions Final Equity / initial_capital
\* is the product over the emitted trades of close[exit - 1] /
\* close[entry - 1]: the returns credited to the equity curve are those of
\* the bars from one bar before the recorded entry to one bar before the
\* recorded exit, while pnl runs from the entry close to the exit close.
PnlMatchesEquityAmended ==
    (pc = "done" /\ LongOnlyClosed) =>
       /\ \A k \in 1 .. Len(result.trades) : result.trades[k].entry_date >= 1
       /\ EquityMultiplier = BracketProduct(result.trades, Len(result.trades))

\* a finished long-only run under zero costs whose trades all closed, with
\* a trade whose pnl is not the gain of the equity curve
PnlMatchesEquityWitness ==
    /\ pc = "done"
    /\ LongOnlyClosed
    /\ result.trades # <<>>
    /\ EquityMultiplier # PnlProduct(result.trades, Len(result.trades))

---------------------------------------------------------------------------
(* C6  Degenerate statistics *)

\* the negative net returns, as _calc_stats selects them
NegativeReturns == {t \in Bars : Lt(df.net_ret[t], Float(0))}

\* C6 as stated: for every valid input with N >= 1 run raises nothing, the
\* Volatility, Sharpe, Sortino and Winrate returned are numbers, never NaN,
\* and Volatility = 0 when N < 2, Sharpe = 0 when Volatility <= 0, Sortino =
\* 0 when there is no negative net return or the downside deviation is
\* undefined or <= 0, Winrate = 0 when there are no trades.
DegenerateAbsorbed ==
    /\ pc # "raised"
    /\ pc = "done" =>
          /\ ~RealIsNaN(result.stats["Volatility"])
          /\ ~RealIsNaN(result.stats["Sharpe"])
          /\ ~RealIsNaN(result.stats["Sortino"])
          /\ ~IsNaN(result.stats["Winrate"])
          /\ N < 2 => result.stats["Volatility"] = RealZero
          /\ ~RealGt0(result.stats["Volatility"]) =>
                result.stats["Sharpe"] = RealZero
          /\ Cardinality(NegativeReturns) < 2 =>
                result.stats["Sortino"] = RealZero
          /\ result.trades = <<>> => result.stats["Winrate"] = Float(0)

---------------------------------------------------------------------------
(* C5  All-flat signal *)

\* C5 as stated: if Signal[t] = 0 for all bars then every value of the
\* equity curve is initial_capital, the trade list is empty, Volatility,
\* Sharpe, Sortino, Winrate and MaxDD are exactly 0, and Final Equity is
\* initial_capital.
AllFlat ==
    (pc = "done" /\ \A t \in Bars : Signal(t) = 0) =>
       /\ \A t \in Bars :
             result.equity_curve[t] = Float(call.initial_capital)
       /\ result.trades = <<>>
       /\ result.stats["Volatility"] = RealZero
       /\ result.stats["Sharpe"] = RealZero
       /\ result.stats["Sortino"] = RealZero
       /\ result.stats["Winrate"] = Float(0)
       /\ result.stats["MaxDD"] = Float(0)
       /\ result.stats["Final Equity"] = Float(call.initial_capital)

---------------------------------------------------------------------------
(* C7  Input-shape validation *)

\* the price table and the signal series differ in length, or one is empty
BadShape ==
    \/ Size(call.signals) # Size(bt.data.close)
    \/ Size(call.signals) = 0
    \/ Size(bt.data.close) = 0

\* C7 as stated: when the price series and the signal series have
\* different lengths or either is empty, run fails with an input-shape error
\* before any return, cost, equity or trade is computed, and no
\* BacktestResult is returned.  The formula is the last clause, which the
\* others imply: run does not return on such an input.
ShapeValidated ==
    BadShape => pc # "done"

===========================================================================
